---- MODULE Spec2Model ----
(***************************************************************************)
(* Model of the orchestration parser of GoblinOS                           *)
(* (desktop/src-tauri/src/orchestration.rs).                               *)
(*                                                                         *)
(* A Rust String is a sequence of one-character strings; Option<T> is a    *)
(* sequence of length at most one (None == <<>>, Some(x) == <<x>>).        *)
(* A generated step id "step_<millis>_<token>" is a natural number: only   *)
(* equality of ids is observable by the parser.                            *)
(***************************************************************************)
EXTENDS Naturals, Integers, Sequences, FiniteSets, TLC

\* ------------------------------------------------------------------ bounds
\* Largest number of pieces concatenated into a free-form input text.
MaxPieces == 4
\* Largest number of clauses of a grammar-shaped input text.
MaxClauses == 5
\* Largest number of clauses of an input text built from the rich clauses.
MaxRichClauses == 2
\* Largest number of id-generator collisions explored within one parse.
MaxCollisions == 1
\* Call-stack capacity of the depth recursion (frames).
MaxStack == 8

\* ----------------------------------------------------------- Option<T>
None == <<>>
Some(x) == <<x>>
IsSome(o) == Len(o) = 1
Unwrap(o) == o[1]

\* ------------------------------------------------------------- strings
Sp == " "
Tab == "\t"
\* char::is_whitespace, over the characters of the model's alphabet
IsWs(c) == c \in {Sp, Tab}

kwTHEN == <<"T", "H", "E", "N">>
kwAND == <<"A", "N", "D">>
kwIF == <<"I", "F">>
strUnknown == <<"u", "n", "k", "n", "o", "w", "n">>

\* s[from..] in Rust notation, 1-based
Drop(s, n) == SubSeq(s, n + 1, Len(s))
Take(s, n) == SubSeq(s, 1, IF n < Len(s) THEN n ELSE Len(s))

\* p occurs in s at position i
MatchAt(s, p, i) ==
    /\ i >= 1
    /\ i + Len(p) - 1 <= Len(s)
    /\ \A k \in 1..Len(p) : s[i + k - 1] = p[k]

\* str::starts_with
StartsWith(s, p) == MatchAt(s, p, 1)

\* str::contains
Contains(s, p) == \E i \in 1..(Len(s) + 1) : MatchAt(s, p, i)

\* str::find: position of the first occurrence, 0 when there is none
Find(s, p) ==
    IF Contains(s, p)
    THEN CHOOSE i \in 1..(Len(s) + 1) :
            /\ MatchAt(s, p, i)
            /\ \A j \in 1..(i - 1) : ~MatchAt(s, p, j)
    ELSE 0

\* str::trim
Trim(s) ==
    LET keep == {i \in 1..Len(s) : ~IsWs(s[i])}
    IN  IF keep = {} THEN <<>>
        ELSE LET lo == CHOOSE i \in keep : \A j \in keep : i <= j
                 hi == CHOOSE i \in keep : \A j \in keep : i >= j
             IN  SubSeq(s, lo, hi)

\* str::split on a non-empty string pattern: the pieces between successive
\* non-overlapping occurrences, found left to right (empty pieces included)
RECURSIVE Split(_, _)
Split(s, p) ==
    LET i == Find(s, p)
    IN  IF i = 0 THEN <<s>>
        ELSE <<SubSeq(s, 1, i - 1)>> \o Split(Drop(s, i + Len(p) - 1), p)

\* Iterator::map(|s| s.trim().to_string())
TrimAll(ss) == [i \in 1..Len(ss) |-> Trim(ss[i])]

\* the filter as it would be if it kept the empty pieces
NonEmptyKeepsAll(ss) == ss

\* Iterator::filter(|s| !s.is_empty())
RECURSIVE NonEmpty(_)
NonEmpty(ss) ==
    IF ss = <<>> THEN <<>>
    ELSE IF Head(ss) = <<>> THEN NonEmpty(Tail(ss))
    ELSE <<Head(ss)>> \o NonEmpty(Tail(ss))

\* OrchestrationParser::split_by_operator
split_by_operator(text, operator) ==
    NonEmpty(TrimAll(Split(text, <<Sp>> \o operator \o <<Sp>>)))

\* ------------------------------------------------------- parse_task
kwIF_SUCCESS == <<"I", "F", "_", "S", "U", "C", "C", "E", "S", "S">>
kwIF_FAILURE == <<"I", "F", "_", "F", "A", "I", "L", "U", "R", "E">>
kwIF_CONTAINS == <<"I", "F", "_", "C", "O", "N", "T", "A", "I", "N", "S">>
wSuccess == <<"s", "u", "c", "c", "e", "s", "s">>
wFailure == <<"f", "a", "i", "l", "u", "r", "e">>
wPassing == <<"p", "a", "s", "s", "i", "n", "g">>
wFailing == <<"f", "a", "i", "l", "i", "n", "g">>
IsQuote(c) == c \in {"\"", "'"}

\* Offset limit of the "goblinId:" prefix and length limit of a goblin id
GoblinIdLimit == 30

\* first position >= i of s holding a non-whitespace character (Len(s)+1 if none)
SkipWs(s, i) ==
    LET stop == {j \in i..Len(s) : ~IsWs(s[j])}
    IN  IF stop = {} THEN (IF i > Len(s) + 1 THEN i ELSE Len(s) + 1)
        ELSE CHOOSE j \in stop : \A k \in stop : j <= k

\* position after `\s+ kw` matched at the start of r, 0 when it does not match
AfterWsKw(r, kw) ==
    LET k == SkipWs(r, 1)
    IN  IF k > 1 /\ MatchAt(r, kw, k) THEN k + Len(kw) ELSE 0

\* r matches `\s+IF_<kw>\s*$`
TailIsKeyword(r, kw) ==
    LET e == AfterWsKw(r, kw)
    IN  e > 0 /\ SkipWs(r, e) = Len(r) + 1

\* r matches `\s+IF_CONTAINS\s*\(\s*["']([^"']+)["']\s*\)\s*$`: <<value>> or <<>>
TailContainsValue(r) ==
    LET e == AfterWsKw(r, kwIF_CONTAINS)
        lp == SkipWs(r, e)
        q1 == SkipWs(r, lp + 1)
        qs == {j \in (q1 + 1)..Len(r) : IsQuote(r[j])}
        q2 == IF qs = {} THEN 0 ELSE CHOOSE j \in qs : \A k \in qs : j <= k
        rp == SkipWs(r, q2 + 1)
    IN  IF /\ e > 0
           /\ lp <= Len(r) /\ r[lp] = "("
           /\ q1 <= Len(r) /\ IsQuote(r[q1])
           /\ q2 > q1 + 1
           /\ rp <= Len(r) /\ r[rp] = ")"
           /\ SkipWs(r, rp + 1) = Len(r) + 1
        THEN Some(SubSeq(r, q1 + 1, q2 - 1))
        ELSE None

\* r starts with `\s+IF\s+(success|failure|passing|failing)`: <<word>> or <<>>
HeadNaturalWord(r) ==
    LET e == AfterWsKw(r, kwIF)
        w == SkipWs(r, e)
        ws == {x \in {wSuccess, wFailure, wPassing, wFailing} : MatchAt(r, x, w)}
    IN  IF e > 0 /\ w > e /\ ws # {} THEN Some(CHOOSE x \in ws : TRUE) ELSE None

\* End of capture group 1 of an unanchored search for `(.+?)<tail>`: the match
\* starts at the first character and the lazy group is the shortest non-empty
\* prefix after which the tail matches; 0 when the regex does not match.
\* js is the set of prefix lengths after which the tail matches.
LazyGroupEnd(js) ==
    IF js = {} THEN 0 ELSE CHOOSE j \in js : \A k \in js : j <= k

\* the condition as it would be if no form stored a value
ConditionWithoutValue(op, val) ==
    [step_id |-> "previous", operator |-> op, value |-> None]

\* StepCondition { step_id, operator, value } of lines 202, 222 and 239
Condition(op, val) == [step_id |-> "previous", operator |-> op, value |-> val]

\* the suffix matching as it would be with the natural-language form tried
\* first and IF_SUCCESS/IF_FAILURE last
ParseConditionNaturalFirst(task_text) ==
    LET okS(r) == TailIsKeyword(r, kwIF_SUCCESS)
        okF(r) == TailIsKeyword(r, kwIF_FAILURE)
        ok1(r) == okS(r) \/ okF(r)
        ok2(r) == TailContainsValue(r) # None
        ok3(r) == HeadNaturalWord(r) # None
        ends == 1..Len(task_text)
        j1 == LazyGroupEnd({j \in ends : ok1(Drop(task_text, j))})
        j2 == LazyGroupEnd({j \in ends : ok2(Drop(task_text, j))})
        j3 == LazyGroupEnd({j \in ends : ok3(Drop(task_text, j))})
    IN  IF j3 > 0
        THEN <<Trim(Take(task_text, j3)),
               LET w == Unwrap(HeadNaturalWord(Drop(task_text, j3)))
               IN  Some(Condition(IF w \in {wSuccess, wPassing} THEN "IfSuccess"
                                  ELSE "IfFailure", None))>>
        ELSE IF j2 > 0
        THEN <<Trim(Take(task_text, j2)),
               Some(Condition("IfContains", TailContainsValue(Drop(task_text, j2))))>>
        ELSE IF j1 > 0
        THEN <<Trim(Take(task_text, j1)),
               Some(Condition(IF okS(Drop(task_text, j1)) THEN "IfSuccess"
                              ELSE "IfFailure", None))>>
        ELSE <<task_text, None>>

\* the suffix matching as it would be if IF_SUCCESS/IF_FAILURE set the
\* condition and left the keyword in the task text
ParseConditionKeepsKeyword(task_text) ==
    LET okS(r) == TailIsKeyword(r, kwIF_SUCCESS)
        okF(r) == TailIsKeyword(r, kwIF_FAILURE)
        ok1(r) == okS(r) \/ okF(r)
        ok2(r) == TailContainsValue(r) # None
        ok3(r) == HeadNaturalWord(r) # None
        ends == 1..Len(task_text)
        j1 == LazyGroupEnd({j \in ends : ok1(Drop(task_text, j))})
        j2 == LazyGroupEnd({j \in ends : ok2(Drop(task_text, j))})
        j3 == LazyGroupEnd({j \in ends : ok3(Drop(task_text, j))})
    IN  IF j1 > 0
        THEN <<task_text,
               Some(Condition(IF okS(Drop(task_text, j1)) THEN "IfSuccess"
                              ELSE "IfFailure", None))>>
        ELSE IF j2 > 0
        THEN <<Trim(Take(task_text, j2)),
               Some(Condition("IfContains", TailContainsValue(Drop(task_text, j2))))>>
        ELSE IF j3 > 0
        THEN <<Trim(Take(task_text, j3)),
               LET w == Unwrap(HeadNaturalWord(Drop(task_text, j3)))
               IN  Some(Condition(IF w \in {wSuccess, wPassing} THEN "IfSuccess"
                                  ELSE "IfFailure", None))>>
        ELSE <<task_text, None>>

\* Lines 190-249: <<clean_task_text, condition>>
ParseCondition(task_text) ==
    LET okS(r) == TailIsKeyword(r, kwIF_SUCCESS)
        okF(r) == TailIsKeyword(r, kwIF_FAILURE)
        ok1(r) == okS(r) \/ okF(r)
        ok2(r) == TailContainsValue(r) # None
        ok3(r) == HeadNaturalWord(r) # None
        ends == 1..Len(task_text)
        j1 == LazyGroupEnd({j \in ends : ok1(Drop(task_text, j))})
        j2 == LazyGroupEnd({j \in ends : ok2(Drop(task_text, j))})
        j3 == LazyGroupEnd({j \in ends : ok3(Drop(task_text, j))})
    IN  IF j1 > 0
        THEN <<Trim(Take(task_text, j1)),
               Some(Condition(IF okS(Drop(task_text, j1)) THEN "IfSuccess"
                              ELSE "IfFailure", None))>>
        ELSE IF j2 > 0
        THEN <<Trim(Take(task_text, j2)),
               Some(Condition("IfContains", TailContainsValue(Drop(task_text, j2))))>>
        ELSE IF j3 > 0
        THEN <<Trim(Take(task_text, j3)),
               LET w == Unwrap(HeadNaturalWord(Drop(task_text, j3)))
               IN  Some(Condition(IF w \in {wSuccess, wPassing} THEN "IfSuccess"
                                  ELSE "IfFailure", None))>>
        ELSE <<task_text, None>>

\* the prefix rule as it would be with colon_idx > 1
ParseGoblinLongPrefix(clean_task_text, default_goblin_id) ==
    LET colon_idx == Find(clean_task_text, <<":">>) - 1
        potential_goblin_id == Trim(Take(clean_task_text, colon_idx))
        fallback == IF IsSome(default_goblin_id) THEN Unwrap(default_goblin_id)
                    ELSE strUnknown
    IN  IF /\ colon_idx > 1
           /\ colon_idx < GoblinIdLimit
           /\ ~Contains(potential_goblin_id, <<Sp>>)
           /\ Len(potential_goblin_id) < GoblinIdLimit
        THEN <<potential_goblin_id, Trim(Drop(clean_task_text, colon_idx + 1))>>
        ELSE <<fallback, clean_task_text>>

\* Lines 251-264: <<goblin_id, task>>
ParseGoblin(clean_task_text, default_goblin_id) ==
    LET colon_idx == Find(clean_task_text, <<":">>) - 1
        potential_goblin_id == Trim(Take(clean_task_text, colon_idx))
        fallback == IF IsSome(default_goblin_id) THEN Unwrap(default_goblin_id)
                    ELSE strUnknown
    IN  IF /\ colon_idx > 0
           /\ colon_idx < GoblinIdLimit
           /\ ~Contains(potential_goblin_id, <<Sp>>)
           /\ Len(potential_goblin_id) < GoblinIdLimit
        THEN <<potential_goblin_id, Trim(Drop(clean_task_text, colon_idx + 1))>>
        ELSE <<fallback, clean_task_text>>

\* parse_task as it would be if a clause without a worker were an error
parse_task_needs_goblin(task_text, default_goblin_id, step_id) ==
    LET pc1 == ParseCondition(task_text)
        pg == ParseGoblin(pc1[1], default_goblin_id)
    IN  [ok |-> pg[1] # strUnknown,
         step |-> [id |-> step_id, goblin_id |-> pg[1], task |-> pg[2],
                   dependencies |-> <<>>, condition |-> pc1[2],
                   status |-> "Pending", result |-> None]]

\* parse_task as it would be if a clause holding an operator word were an error
parse_task_rejects_operator(task_text, default_goblin_id, step_id) ==
    LET pc1 == ParseCondition(task_text)
        pg == ParseGoblin(pc1[1], default_goblin_id)
    IN  [ok |-> ~Contains(task_text, kwTHEN),
         step |-> [id |-> step_id, goblin_id |-> pg[1], task |-> pg[2],
                   dependencies |-> <<>>, condition |-> pc1[2],
                   status |-> "Pending", result |-> None]]

\* OrchestrationParser::parse_task, given the outcome step_id of the id
\* generator; the result is Ok(step) on every path.
parse_task(task_text, default_goblin_id, step_id) ==
    LET pc1 == ParseCondition(task_text)
        pg == ParseGoblin(pc1[1], default_goblin_id)
    IN  [ok |-> TRUE,
         step |-> [id |-> step_id,
                   goblin_id |-> pg[1],
                   task |-> pg[2],
                   dependencies |-> <<>>,
                   condition |-> pc1[2],
                   status |-> "Pending",
                   result |-> None]]

\* Lines 126-132: last_goblin_id after a clause
UpdateLastGoblin(task_text, last_goblin_id) ==
    LET idx == Find(task_text, <<":">>) - 1
        potential_goblin_id == Trim(Split(task_text, <<":">>)[1])
    IN  IF /\ idx >= 0
           /\ idx < GoblinIdLimit
           /\ ~Contains(potential_goblin_id, <<Sp>>)
           /\ Len(potential_goblin_id) < GoblinIdLimit
        THEN Some(potential_goblin_id)
        ELSE last_goblin_id

\* ---------------------------------------------------------- validation
ErrEmpty == "Orchestration text cannot be empty"
ErrSyntax == "Invalid orchestration syntax"

\* Validation as it would be with text.is_empty() in place of
\* text.trim().is_empty()
ValidationNoTrim(text) ==
    LET trimmed == Trim(text)
    IN  IF text = <<>> THEN Some(ErrEmpty)
        ELSE IF \/ StartsWith(trimmed, kwTHEN \o <<Sp>>)
                \/ StartsWith(trimmed, kwAND \o <<Sp>>)
                \/ StartsWith(trimmed, kwIF \o <<Sp>>)
        THEN Some(ErrSyntax)
        ELSE IF \/ Contains(text, <<Sp>> \o kwTHEN \o <<Sp>> \o kwTHEN \o <<Sp>>)
                \/ Contains(text, <<Sp>> \o kwAND \o <<Sp>> \o kwAND \o <<Sp>>)
        THEN Some(ErrSyntax)
        ELSE None

\* Validation as it would be with the operator prefixes tested on the
\* untrimmed text and the doubled operators left unchecked
ValidationUntrimmedPrefix(text) ==
    IF Trim(text) = <<>> THEN Some(ErrEmpty)
    ELSE IF \/ StartsWith(text, kwTHEN \o <<Sp>>)
            \/ StartsWith(text, kwAND \o <<Sp>>)
            \/ StartsWith(text, kwIF \o <<Sp>>)
    THEN Some(ErrSyntax)
    ELSE None

\* Lines 91-104 of parse: None when the text passes, Some(message) otherwise
Validation(text) ==
    LET trimmed == Trim(text)
    IN  IF trimmed = <<>> THEN Some(ErrEmpty)
        ELSE IF \/ StartsWith(trimmed, kwTHEN \o <<Sp>>)
                \/ StartsWith(trimmed, kwAND \o <<Sp>>)
                \/ StartsWith(trimmed, kwIF \o <<Sp>>)
        THEN Some(ErrSyntax)
        ELSE IF \/ Contains(text, <<Sp>> \o kwTHEN \o <<Sp>> \o kwTHEN \o <<Sp>>)
                \/ Contains(text, <<Sp>> \o kwAND \o <<Sp>> \o kwAND \o <<Sp>>)
        THEN Some(ErrSyntax)
        ELSE None

\* --------------------------------------------------------- id generator
\* format!("step_{}_{}", timestamp_millis, first uuid group): two calls can
\* return the same string.  Ids are numbered in order of first appearance; an
\* outcome is a fresh id or a repetition of an id already in the plan.
UsedIds(steps) == {steps[i].id : i \in 1..Len(steps)}
Collisions(steps) == Len(steps) - Cardinality(UsedIds(steps))
GenIds(steps) ==
    {Cardinality(UsedIds(steps)) + 1}
        \cup (IF Collisions(steps) < MaxCollisions THEN UsedIds(steps) ELSE {})

\* ------------------------------------------------------------- batches
Max(a, b) == IF a >= b THEN a ELSE b

\* Iterator::max of a sequence of numbers, as an Option
MaxOf(ds) ==
    IF ds = <<>> THEN None
    ELSE Some(CHOOSE d \in {ds[i] : i \in 1..Len(ds)} :
                \A i \in 1..Len(ds) : d >= ds[i])

\* Option::unwrap_or
UnwrapOr(o, d) == IF IsSome(o) THEN Unwrap(o) ELSE d

\* the lookup as it would be if it took the last step with that id
FindStepLast(all_steps, dep_id) ==
    LET hits == {i \in 1..Len(all_steps) : all_steps[i].id = dep_id}
    IN  IF hits = {} THEN 0 ELSE CHOOSE i \in hits : \A j \in hits : i >= j

\* all_steps.iter().find(|s| &s.id == dep_id): index of the first step with
\* that id, 0 when there is none
FindStep(all_steps, dep_id) ==
    LET hits == {i \in 1..Len(all_steps) : all_steps[i].id = dep_id}
    IN  IF hits = {} THEN 0 ELSE CHOOSE i \in hits : \A j \in hits : i <= j

\* Lines 289-291 and 301: the value get_step_depth returns for a step with
\* dependencies deps once depths_of_deps is collected
DepthValue(deps, depths_of_deps) ==
    IF deps = <<>> THEN 0 ELSE UnwrapOr(MaxOf(depths_of_deps), 0)

\* calculate_batches as it would be without the final + 1
BatchCountIsMaxDepth(max_depth) == UnwrapOr(max_depth, 0)

\* Lines 279-284: calculate_batches from the maximum over the steps
BatchCount(max_depth) == UnwrapOr(max_depth, 0) + 1

\* the binding as it would be if a step waited for the first step of the
\* previous phase only
WithFirstDependency(step, previous_phase_step_ids) ==
    [step EXCEPT !.dependencies = Take(previous_phase_step_ids, 1)]

\* Line 135: step.dependencies = previous_phase_step_ids.clone()
WithDependencies(step, previous_phase_step_ids) ==
    [step EXCEPT !.dependencies = previous_phase_step_ids]

\* One activation of get_step_depth: the step measured, the position reached
\* in its dependencies, and depths_of_deps collected so far
Frame(i) == [step |-> i, dep_i |-> 1, depths |-> <<>>]

\* Lines 144-153
MsPerBatch == 2000
MsPerSecond == 1000
MsPerMinute == 60000
DescriptionLimit == 100

\* format!("{}", n) of an unsigned number: its decimal digits
DigitChars == <<"0", "1", "2", "3", "4", "5", "6", "7", "8", "9">>
RECURSIVE Decimal(_)
Decimal(n) ==
    IF n < 10 THEN <<DigitChars[n + 1]>>
    ELSE Decimal(n \div 10) \o <<DigitChars[(n % 10) + 1]>>

\* the estimate as it would be with <= in the comparison with a minute
estimated_duration_minute_in_seconds(batches) ==
    LET estimated_duration_ms == batches * MsPerBatch
    IN  IF estimated_duration_ms <= MsPerMinute
        THEN Decimal(Max(estimated_duration_ms \div MsPerSecond, 1)) \o <<"s">>
        ELSE Decimal(Max(estimated_duration_ms \div MsPerMinute, 1)) \o <<"m">>

estimated_duration(batches) ==
    LET estimated_duration_ms == batches * MsPerBatch
    IN  IF estimated_duration_ms < MsPerMinute
        THEN Decimal(Max(estimated_duration_ms \div MsPerSecond, 1)) \o <<"s">>
        ELSE Decimal(Max(estimated_duration_ms \div MsPerMinute, 1)) \o <<"m">>

\* the plan as it would be if parse handed it over as already running
PlanRunning(text, steps, batches) ==
    [description |-> Take(text, DescriptionLimit),
     steps |-> steps,
     status |-> "Running",
     text |-> Some(text),
     metadata |-> [total_steps |-> Len(steps),
                   parallel_batches |-> batches,
                   estimated_duration |-> Some(estimated_duration(batches)),
                   original_text |-> Some(text)]]

\* Lines 155-170
Plan(text, steps, batches) ==
    [description |-> Take(text, DescriptionLimit),
     steps |-> steps,
     status |-> "Pending",
     text |-> Some(text),
     metadata |-> [total_steps |-> Len(steps),
                   parallel_batches |-> batches,
                   estimated_duration |-> Some(estimated_duration(batches)),
                   original_text |-> Some(text)]]

Ok(plan) == [ok |-> TRUE, plan |-> Some(plan), err |-> None]
Err(msg) == [ok |-> FALSE, plan |-> None, err |-> Some(msg)]

\* --------------------------------------------------------------- inputs
Pieces ==
    {<<Sp>>, <<Tab>>, <<"a">>, kwTHEN \o <<Sp>>, kwAND \o <<Sp>>, kwIF \o <<Sp>>}

\* every concatenation of at most n pieces
RECURSIVE PieceTexts(_)
PieceTexts(n) ==
    IF n = 0 THEN {<<>>}
    ELSE LET shorter == PieceTexts(n - 1)
         IN  shorter \cup {t \o p : t \in shorter, p \in Pieces}

Clauses == {<<"a">>}
Operators == {<<Sp>> \o kwTHEN \o <<Sp>>, <<Sp>> \o kwAND \o <<Sp>>}

\* clause (operator clause)*, at most n clauses
RECURSIVE GrammarTexts(_)
GrammarTexts(n) ==
    IF n <= 1 THEN Clauses
    ELSE LET shorter == GrammarTexts(n - 1)
         IN  shorter \cup {t \o op \o c : t \in shorter, op \in Operators, c \in Clauses}

\* a worker id of 30 characters: one too long for a "goblinId:" prefix
LongWord == [i \in 1..GoblinIdLimit |-> "g"]

\* clause bodies with worker prefixes and conditional suffixes
RichClauses ==
    {<<"a">>,
     <<":", "b">>,
     <<"a", Sp, "b", ":", "c">>,
     <<"b", Sp>> \o kwIF_SUCCESS,
     <<"g", ":", "b", Sp>> \o kwIF_FAILURE,
     <<"b", Sp>> \o kwIF_CONTAINS \o <<"(", "\"", "x", "\"", ")">>,
     <<"b", Sp>> \o kwIF \o <<Sp>> \o wFailure \o <<Sp>> \o kwIF_SUCCESS,
     <<"b", Sp>> \o kwIF \o <<Sp>> \o wPassing \o <<Sp>> \o kwIF_CONTAINS
         \o <<"(", "'", "x", "'", ")">>,
     <<"b", Sp>> \o kwIF \o <<Sp>> \o wSuccess \o <<Sp, "c">>}

\* a rich clause, then at most one more rich clause, then plain clauses: at
\* most n clauses
RECURSIVE RichTexts(_)
RichTexts(n) ==
    IF n <= 1 THEN RichClauses
    ELSE LET shorter == RichTexts(n - 1)
         IN  shorter \cup {t \o op \o c : t \in shorter, op \in Operators,
                                          c \in IF n = 2 THEN RichClauses
                                                ELSE Clauses}

\* clauses with a prefix of 29 and of 30 characters: on either side of the
\* limit of a "goblinId:" prefix
LimitTexts ==
    {Take(LongWord, GoblinIdLimit - 1) \o <<":", "b">>, LongWord \o <<":", "b">>}

Texts ==
    PieceTexts(MaxPieces) \cup GrammarTexts(MaxClauses)
        \cup RichTexts(MaxRichClauses) \cup LimitTexts
DefaultGoblinIds == {None, Some(<<"w">>)}

\* ---------------------------------------------------------------- state
VARIABLES
    text,                      \* parse argument
    default_goblin_id,         \* parse argument
    pc,                        \* position in parse
    phases, phase_i,           \* the phase loop (line 117)
    parallel_tasks, task_i,    \* the clause loop (line 123)
    steps,
    previous_phase_step_ids,
    current_phase_step_ids,
    last_goblin_id,
    step_phase,                \* history: the phase that produced each step
    batch_i, max_depth, stack, \* calculate_batches and its recursion
    step_depths,               \* history: get_step_depth of each step (line 280)
    result,                    \* the returned Result, None while running
    earlier                    \* what the caller kept of an earlier call of
                               \* parse, None during the first call

inputVars == <<text, default_goblin_id>>
phaseVars == <<phases, phase_i>>
taskVars == <<parallel_tasks, task_i, current_phase_step_ids, last_goblin_id>>
stepVars == <<steps, step_phase, previous_phase_step_ids>>
depthVars == <<batch_i, max_depth, stack, step_depths>>

\* ------------------------------------------- the runtime around parse
\* memory.rs: the history store (table memory of the SQLite database)
VARIABLES
    memory,        \* the rows of table memory, in insertion order
    store_log,     \* history: the save and clear_history calls that succeeded
    history_out    \* the last get_history call: its arguments, what it
                   \* returned, and the length of store_log at the call

storeVars == <<memory, store_log, history_out>>

\* cost_tracker.rs: CostTracker.history
VARIABLES
    cost_history,  \* Vec<TaskCost>
    cost_log,      \* history: the record_task and clear_history calls
    summary_out    \* the last get_summary call: the CostSummary and the
                   \* length of cost_log at the call

costVars == <<cost_history, cost_log, summary_out>>

\* commands.rs: the commands that run on the shared Arc<Mutex<GoblinRuntime>>
VARIABLES
    lock,          \* the holder of the Mutex around the runtime, if any
    stream,        \* the items the provider's stream yields, in order
    st_pc,         \* execute_task_streaming: its position
    st_i,          \*   the items it took from the stream
    full_response, \*   its local full_response
    emitted,       \*   the StreamEvents it emitted as "stream-token"
    st_result,     \*   what it returned
    gc_pc,         \* generate_stream_collect: its position
    gc_i,          \*   the items it took from the stream
    full,          \*   its local full
    gc_result,     \*   what it returned
    ex_pc,         \* execute_task (not streaming): its position
    ex_result,     \*   what it returned, with the cost history and the
                   \*   table as they were before and after the call
    po_pc          \* parse_orchestration: its position

streamingVars == <<st_pc, st_i, full_response, emitted, st_result>>
collectVars == <<gc_pc, gc_i, full, gc_result>>
executeVars == <<ex_pc, ex_result>>
cmdVars == <<lock, stream, streamingVars, collectVars, executeVars, po_pc>>

runtimeVars == <<storeVars, costVars, cmdVars>>

StoreIdle == memory = <<>> /\ store_log = <<>> /\ history_out = None
CostIdle == cost_history = <<>> /\ cost_log = <<>> /\ summary_out = None
\* no command was issued
CommandsIdle ==
    /\ lock = None
    /\ st_pc = "idle" /\ st_i = 0 /\ full_response = "" /\ emitted = <<>>
    /\ st_result = None
    /\ gc_pc = "idle" /\ gc_i = 0 /\ full = "" /\ gc_result = None
    /\ ex_pc = "idle" /\ ex_result = None
    /\ po_pc = "idle"
RuntimeIdle == StoreIdle /\ CostIdle /\ CommandsIdle /\ stream = <<>>

vars == <<text, default_goblin_id, pc, phases, phase_i, parallel_tasks, task_i,
          steps, previous_phase_step_ids, current_phase_step_ids,
          last_goblin_id, step_phase, batch_i, max_depth, stack,
          step_depths, result, earlier, runtimeVars>>

Init ==
    /\ text \in Texts
    /\ default_goblin_id \in DefaultGoblinIds
    /\ pc = "validate"
    /\ phases = <<>> /\ phase_i = 0
    /\ parallel_tasks = <<>> /\ task_i = 0
    /\ steps = <<>>
    /\ previous_phase_step_ids = <<>>
    /\ current_phase_step_ids = <<>>
    /\ last_goblin_id = None
    /\ step_phase = <<>>
    /\ batch_i = 0 /\ max_depth = None /\ stack = <<>>
    /\ step_depths = <<>>
    /\ result = None
    /\ earlier = None
    /\ RuntimeIdle

\* Lines 91-104: reject, or go on to the phase split
Validate ==
    /\ pc = "validate"
    /\ LET v == Validation(text)
       IN  IF IsSome(v)
           THEN /\ result' = Some(Err(Unwrap(v)))
                /\ pc' = "done"
           ELSE /\ result' = result
                /\ pc' = "split"
    /\ UNCHANGED <<inputVars, earlier, runtimeVars, phaseVars, taskVars, stepVars, depthVars>>

\* Lines 106-115: the phases and the empty step list
SplitPhases ==
    /\ pc = "split"
    /\ phases' = split_by_operator(text, kwTHEN)
    /\ phase_i' = 1
    /\ steps' = <<>>
    /\ step_phase' = <<>>
    /\ previous_phase_step_ids' = <<>>
    /\ pc' = "phase"
    /\ UNCHANGED <<inputVars, earlier, runtimeVars, taskVars, depthVars, result>>

\* Lines 117-121: enter the next phase
BeginPhase ==
    /\ pc = "phase"
    /\ phase_i <= Len(phases)
    /\ parallel_tasks' = split_by_operator(phases[phase_i], kwAND)
    /\ task_i' = 1
    /\ current_phase_step_ids' = <<>>
    /\ last_goblin_id' = default_goblin_id
    /\ pc' = "task"
    /\ UNCHANGED <<inputVars, earlier, runtimeVars, phaseVars, stepVars, depthVars, result>>

\* Lines 123-139: one clause of the phase becomes one step
ParseTask ==
    /\ pc = "task"
    /\ task_i <= Len(parallel_tasks)
    /\ \E step_id \in GenIds(steps) :
         LET task_text == parallel_tasks[task_i]
             r == parse_task(task_text, last_goblin_id, step_id)
             step == WithDependencies(r.step, previous_phase_step_ids)
         IN  IF ~r.ok
             THEN /\ result' = Some(Err(ErrSyntax))
                  /\ pc' = "done"
                  /\ UNCHANGED <<taskVars, stepVars>>
             ELSE /\ last_goblin_id' = UpdateLastGoblin(task_text, last_goblin_id)
                  /\ current_phase_step_ids' = Append(current_phase_step_ids, step.id)
                  /\ steps' = Append(steps, step)
                  /\ step_phase' = Append(step_phase, phase_i)
                  /\ task_i' = task_i + 1
                  /\ UNCHANGED <<parallel_tasks, previous_phase_step_ids, pc, result>>
    /\ UNCHANGED <<inputVars, earlier, runtimeVars, phaseVars, depthVars>>

\* the end of a phase as it would be if the ids of all earlier phases were
\* kept
EndPhaseAccumulating ==
    /\ pc = "task"
    /\ task_i > Len(parallel_tasks)
    /\ previous_phase_step_ids' = previous_phase_step_ids \o current_phase_step_ids
    /\ phase_i' = phase_i + 1
    /\ pc' = "phase"
    /\ UNCHANGED <<inputVars, earlier, runtimeVars, phases, taskVars, steps, step_phase, depthVars, result>>

\* Line 141: the phase is over
EndPhase ==
    /\ pc = "task"
    /\ task_i > Len(parallel_tasks)
    /\ previous_phase_step_ids' = current_phase_step_ids
    /\ phase_i' = phase_i + 1
    /\ pc' = "phase"
    /\ UNCHANGED <<inputVars, earlier, runtimeVars, phases, taskVars, steps, step_phase, depthVars, result>>

\* Line 145: all phases done, calculate_batches starts
BeginBatches ==
    /\ pc = "phase"
    /\ phase_i > Len(phases)
    /\ batch_i' = 1
    /\ max_depth' = None
    /\ stack' = <<>>
    /\ step_depths' = <<>>
    /\ pc' = "batches"
    /\ UNCHANGED <<inputVars, earlier, runtimeVars, phaseVars, taskVars, stepVars, result>>

\* Line 280: calculate_batches calls get_step_depth for the next step
MeasureStep ==
    /\ pc = "batches"
    /\ stack = <<>>
    /\ batch_i <= Len(steps)
    /\ stack' = <<Frame(batch_i)>>
    /\ UNCHANGED <<inputVars, earlier, runtimeVars, phaseVars, taskVars, stepVars, batch_i, max_depth,
                   step_depths, pc, result>>

\* Lines 293-298: resolve the next dependency id and recurse into the step
\* found (an id that resolves to no step is skipped by filter_map)
DepthCall ==
    /\ pc = "batches"
    /\ stack # <<>>
    /\ LET top == stack[Len(stack)]
           deps == steps[top.step].dependencies
       IN  /\ top.dep_i <= Len(deps)
           /\ LET found == FindStep(steps, deps[top.dep_i])
              IN  IF found = 0
                  THEN stack' = [stack EXCEPT ![Len(stack)].dep_i = top.dep_i + 1]
                  ELSE /\ Len(stack) < MaxStack
                       /\ stack' = Append(stack, Frame(found))
    /\ UNCHANGED <<inputVars, earlier, runtimeVars, phaseVars, taskVars, stepVars, batch_i, max_depth,
                   step_depths, pc, result>>

\* Lines 289-291 and 301: get_step_depth returns, to its caller in the
\* recursion (line 297, which adds 1) or to calculate_batches (line 281)
DepthReturn ==
    /\ pc = "batches"
    /\ stack # <<>>
    /\ LET n == Len(stack)
           top == stack[n]
           deps == steps[top.step].dependencies
           value == DepthValue(deps, top.depths)
       IN  /\ top.dep_i > Len(deps)
           /\ IF n > 1
              THEN /\ stack' = [SubSeq(stack, 1, n - 1) EXCEPT
                                  ![n - 1].depths = Append(@, value + 1),
                                  ![n - 1].dep_i = @ + 1]
                   /\ UNCHANGED <<batch_i, max_depth, step_depths>>
              ELSE /\ stack' = <<>>
                   /\ step_depths' = Append(step_depths, value)
                   /\ max_depth' = Some(Max(UnwrapOr(max_depth, value), value))
                   /\ batch_i' = batch_i + 1
    /\ UNCHANGED <<inputVars, earlier, runtimeVars, phaseVars, taskVars, stepVars, pc, result>>

\* Lines 282-284 and 147-170: the batch count and the returned plan
Assemble ==
    /\ pc = "batches"
    /\ stack = <<>>
    /\ batch_i > Len(steps)
    /\ result' = Some(Ok(Plan(text, steps, BatchCount(max_depth))))
    /\ pc' = "done"
    /\ UNCHANGED <<inputVars, earlier, runtimeVars, phaseVars, taskVars, stepVars, depthVars>>

Next ==
    \/ Validate
    \/ SplitPhases
    \/ BeginPhase
    \/ ParseTask
    \/ EndPhase
    \/ BeginBatches
    \/ MeasureStep
    \/ DepthCall
    \/ DepthReturn
    \/ Assemble

Spec == Init /\ [][Next]_vars

\* parse is one synchronous call: once calculate_batches has started, each of
\* its steps that can be taken is taken
FairSpec ==
    Spec /\ WF_vars(MeasureStep) /\ WF_vars(DepthCall) /\ WF_vars(DepthReturn)
         /\ WF_vars(Assemble)

\* ------------------------------------------------- long chains of phases
\* parse of "a THEN a THEN ... THEN a" (n phases, no default worker, n
\* different ids) at the end of calculate_batches' loop, for the estimate of
\* plans with many batches
MaxChain == 60
RECURSIVE ChainText(_)
ChainText(n) ==
    IF n <= 1 THEN <<"a">>
    ELSE ChainText(n - 1) \o <<Sp>> \o kwTHEN \o <<Sp, "a">>
ChainStep(i) ==
    WithDependencies(parse_task(<<"a">>, None, i).step,
                     IF i = 1 THEN <<>> ELSE <<i - 1>>)

ChainInit ==
    \E n \in 1..MaxChain :
        /\ text = ChainText(n)
        /\ default_goblin_id = None
        /\ pc = "batches"
        /\ phases = [i \in 1..n |-> <<"a">>] /\ phase_i = n + 1
        /\ parallel_tasks = <<<<"a">>>> /\ task_i = 2
        /\ steps = [i \in 1..n |-> ChainStep(i)]
        /\ previous_phase_step_ids = <<n>>
        /\ current_phase_step_ids = <<n>>
        /\ last_goblin_id = UpdateLastGoblin(<<"a">>, default_goblin_id)
        /\ step_phase = [i \in 1..n |-> i]
        /\ batch_i = n + 1 /\ max_depth = Some(n - 1) /\ stack = <<>>
        /\ step_depths = [i \in 1..n |-> i - 1]
        /\ result = None
        /\ earlier = None
        /\ RuntimeIdle

DurationSpec == ChainInit /\ [][Assemble]_vars

\* --------------------------------------------------- a second call
\* The caller calls parse, keeps the depths and the batch count of the plan,
\* and calls parse again on the same text with the clauses of one phase
\* permuted.
MaxRepeatClauses == 3
RepeatClauses == {<<"a">>, <<"b">>}
RECURSIVE RepeatTexts(_)
RepeatTexts(n) ==
    IF n <= 1 THEN RepeatClauses
    ELSE LET shorter == RepeatTexts(n - 1)
         IN  shorter \cup {t \o op \o c : t \in shorter, op \in Operators,
                                          c \in RepeatClauses}

RepeatInit ==
    /\ text \in RepeatTexts(MaxRepeatClauses)
    /\ default_goblin_id = None
    /\ pc = "validate"
    /\ phases = <<>> /\ phase_i = 0
    /\ parallel_tasks = <<>> /\ task_i = 0
    /\ steps = <<>>
    /\ previous_phase_step_ids = <<>>
    /\ current_phase_step_ids = <<>>
    /\ last_goblin_id = None
    /\ step_phase = <<>>
    /\ batch_i = 0 /\ max_depth = None /\ stack = <<>>
    /\ step_depths = <<>>
    /\ result = None
    /\ earlier = None
    /\ RuntimeIdle

\* the pieces of ss joined by " op "
RECURSIVE Join(_, _)
Join(ss, op) ==
    IF Len(ss) = 0 THEN <<>>
    ELSE IF Len(ss) = 1 THEN ss[1]
    ELSE ss[1] \o <<Sp>> \o op \o <<Sp>> \o Join(Tail(ss), op)

\* the orders the members of cs can be written in
Orders(cs) ==
    LET n == Len(cs)
        perms == {q \in [1..n -> 1..n] : \A i, j \in 1..n : q[i] = q[j] => i = j}
    IN  {[i \in 1..n |-> cs[q[i]]] : q \in perms}

\* the clause step k was parsed from
ClauseOfStep(k) ==
    split_by_operator(phases[step_phase[k]], kwAND)
        [k - Cardinality({i \in 1..k : step_phase[i] < step_phase[k]})]

\* the depth get_step_depth returned for each clause of each phase
DepthsByClause ==
    {<<step_phase[k], ClauseOfStep(k), step_depths[k]>> : k \in 1..Len(step_depths)}

\* the second call: the text of the first with one phase rewritten
ParseAgain ==
    /\ pc = "done"
    /\ IsSome(result) /\ Unwrap(result).ok
    /\ earlier = None
    /\ earlier' = Some([text |-> text,
                        plan |-> Unwrap(Unwrap(result).plan),
                        depths |-> DepthsByClause,
                        parallel_batches |->
                            Unwrap(Unwrap(result).plan).metadata.parallel_batches])
    /\ \E p \in 1..Len(phases) :
         \E order \in Orders(split_by_operator(phases[p], kwAND)) :
            text' = Join([phases EXCEPT ![p] = Join(order, kwAND)], kwTHEN)
    /\ pc' = "validate"
    /\ phases' = <<>> /\ phase_i' = 0
    /\ parallel_tasks' = <<>> /\ task_i' = 0
    /\ steps' = <<>>
    /\ previous_phase_step_ids' = <<>>
    /\ current_phase_step_ids' = <<>>
    /\ last_goblin_id' = None
    /\ step_phase' = <<>>
    /\ batch_i' = 0 /\ max_depth' = None /\ stack' = <<>>
    /\ step_depths' = <<>>
    /\ result' = None
    /\ UNCHANGED <<default_goblin_id, runtimeVars>>

RepeatNext ==
    \/ Validate
    \/ SplitPhases
    \/ BeginPhase
    \/ ParseTask
    \/ EndPhase
    \/ BeginBatches
    \/ MeasureStep
    \/ DepthCall
    \/ DepthReturn
    \/ Assemble
    \/ ParseAgain

RepeatSpec == RepeatInit /\ [][RepeatNext]_vars

\* -------------------------------------------------- the history store
\* No parse call is under way
ParserIdle ==
    /\ text = <<>>
    /\ default_goblin_id = None
    /\ pc = "idle"
    /\ phases = <<>> /\ phase_i = 0
    /\ parallel_tasks = <<>> /\ task_i = 0
    /\ steps = <<>>
    /\ previous_phase_step_ids = <<>>
    /\ current_phase_step_ids = <<>>
    /\ last_goblin_id = None
    /\ step_phase = <<>>
    /\ batch_i = 0 /\ max_depth = None /\ stack = <<>>
    /\ step_depths = <<>>
    /\ result = None
    /\ earlier = None

parserVars == <<inputVars, earlier, phaseVars, taskVars, stepVars, depthVars,
                pc, result>>

MaxOps == 3
EntryIds == {1, 2}
Goblins == {"g", "h"}
Timestamps == {1, 2}
Limits == {-1, 0, 1, 2}

\* MemoryEntry (kpis left out)
MemoryEntry(id, goblin, response, timestamp) ==
    [id |-> id, goblin |-> goblin, task |-> "t", response |-> response,
     timestamp |-> timestamp]

\* id TEXT PRIMARY KEY
PrimaryKeyTaken(table, id) == \E i \in 1..Len(table) : table[i].id = id

\* MemoryStore::save: INSERT INTO memory; the insert fails on a taken primary
\* key or a database error and then leaves the table as it was
memory_save(table, entry, db_ok) ==
    IF db_ok /\ ~PrimaryKeyTaken(table, entry.id)
    THEN [ok |-> TRUE, memory |-> Append(table, entry)]
    ELSE [ok |-> FALSE, memory |-> table]

\* ORDER BY timestamp DESC
Descending(rows) ==
    \A i \in 1..(Len(rows) - 1) : rows[i].timestamp >= rows[i + 1].timestamp

\* the query as it would be with ORDER BY timestamp ASC
memory_get_history_ascending(table, goblin, limit) ==
    LET hits == {i \in 1..Len(table) : table[i].goblin = goblin}
        n == Cardinality(hits)
        m == IF limit < 0 \/ limit > n THEN n ELSE limit
        orders == {q \in [1..n -> hits] :
                      /\ \A i, j \in 1..n : q[i] = q[j] => i = j
                      /\ \A i \in 1..(n - 1) :
                            table[q[i]].timestamp <= table[q[i + 1]].timestamp}
    IN  {[i \in 1..m |-> table[q[i]]] : q \in orders}

\* MemoryStore::get_history: SELECT * FROM memory WHERE goblin = ? ORDER BY
\* timestamp DESC LIMIT ?.  Rows of equal timestamp come in an order SQL
\* leaves open, and a negative LIMIT is no limit: the set of possible results
memory_get_history(table, goblin, limit) ==
    LET hits == {i \in 1..Len(table) : table[i].goblin = goblin}
        n == Cardinality(hits)
        m == IF limit < 0 \/ limit > n THEN n ELSE limit
        orders == {q \in [1..n -> hits] :
                      /\ \A i, j \in 1..n : q[i] = q[j] => i = j
                      /\ Descending([i \in 1..n |-> table[q[i]]])}
    IN  {[i \in 1..m |-> table[q[i]]] : q \in orders}

\* MemoryStore::clear_history: DELETE FROM memory WHERE goblin = ?
memory_clear_history(table, goblin) ==
    LET keep == {i \in 1..Len(table) : table[i].goblin # goblin}
        Nth(k) == CHOOSE i \in keep : Cardinality({j \in keep : j < i}) = k - 1
    IN  [k \in 1..Cardinality(keep) |-> table[Nth(k)]]

Saved(entry) == [op |-> "save", entry |-> entry, goblin |-> entry.goblin]
Cleared(goblin) == [op |-> "clear", entry |-> None, goblin |-> goblin]

StoreSave ==
    /\ Len(store_log) < MaxOps
    /\ \E id \in EntryIds, goblin \in Goblins, timestamp \in Timestamps,
          db_ok \in BOOLEAN :
         LET entry == MemoryEntry(id, goblin, "r", timestamp)
             r == memory_save(memory, entry, db_ok)
         IN  /\ memory' = r.memory
             /\ store_log' = IF r.ok THEN Append(store_log, Saved(entry))
                             ELSE store_log
    /\ UNCHANGED <<parserVars, history_out, costVars, cmdVars>>

StoreGetHistory ==
    /\ \E goblin \in Goblins, limit \in Limits :
         \E rows \in memory_get_history(memory, goblin, limit) :
            history_out' = Some([goblin |-> goblin, limit |-> limit,
                                 rows |-> rows, at |-> Len(store_log)])
    /\ UNCHANGED <<parserVars, memory, store_log, costVars, cmdVars>>

StoreClearHistory ==
    /\ Len(store_log) < MaxOps
    /\ \E goblin \in Goblins :
         /\ memory' = memory_clear_history(memory, goblin)
         /\ store_log' = Append(store_log, Cleared(goblin))
    /\ UNCHANGED <<parserVars, history_out, costVars, cmdVars>>

StoreInit == ParserIdle /\ RuntimeIdle

StoreNext ==
    \/ StoreSave
    \/ StoreGetHistory
    \/ StoreClearHistory

StoreSpec == StoreInit /\ [][StoreNext]_vars

\* ---------------------------------------------------- the cost tracker
MaxRecords == 3

\* format!("{}:{}", provider, model)
pricing_key(provider, model) == provider \o ":" \o model

\* CostTracker::new: the pricing table, in millionths of a dollar per 1000
\* tokens (costs are then whole billionths of a dollar; the rounding of f64
\* is not modelled)
CostConfig(provider, model, input_cost_per_1k, output_cost_per_1k) ==
    [provider |-> provider, model |-> model,
     input_cost_per_1k |-> input_cost_per_1k,
     output_cost_per_1k |-> output_cost_per_1k]

pricing ==
    ("openai:gpt-4-turbo-preview" :>
        CostConfig("openai", "gpt-4-turbo-preview", 10000, 30000))
    @@ ("openai:gpt-4" :> CostConfig("openai", "gpt-4", 30000, 60000))
    @@ ("openai:gpt-3.5-turbo" :>
        CostConfig("openai", "gpt-3.5-turbo", 500, 1500))
    @@ ("anthropic:claude-3-5-sonnet-20241022" :>
        CostConfig("anthropic", "claude-3-5-sonnet-20241022", 3000, 15000))
    @@ ("anthropic:claude-3-opus-20240229" :>
        CostConfig("anthropic", "claude-3-opus-20240229", 15000, 75000))
    @@ ("gemini:gemini-1.5-pro-latest" :>
        CostConfig("gemini", "gemini-1.5-pro-latest", 1250, 5000))
    @@ ("gemini:gemini-1.5-flash-latest" :>
        CostConfig("gemini", "gemini-1.5-flash-latest", 75, 300))
    @@ ("ollama:qwen2.5:3b" :> CostConfig("ollama", "qwen2.5:3b", 0, 0))

\* the arguments of record_task that are tried: two priced models and one
\* the table does not know
ProviderModels ==
    {<<"openai", "gpt-4">>,
     <<"anthropic", "claude-3-5-sonnet-20241022">>,
     <<"ollama", "llama3">>}
TokenCounts == {<<1000, 500>>, <<2000, 1000>>, <<0, 0>>}

\* record_task as it would be if a model without a price were not recorded
cost_record_task_priced_only(history, task_id, provider, model, input_tokens, output_tokens) ==
    LET key == pricing_key(provider, model)
        known == key \in DOMAIN pricing
        input_cost == IF known
                      THEN input_tokens * pricing[key].input_cost_per_1k
                      ELSE 0
        output_cost == IF known
                       THEN output_tokens * pricing[key].output_cost_per_1k
                       ELSE 0
        task_cost == [task_id |-> task_id, provider |-> provider,
                      model |-> model, input_tokens |-> input_tokens,
                      output_tokens |-> output_tokens,
                      input_cost |-> input_cost, output_cost |-> output_cost,
                      total_cost |-> input_cost + output_cost]
    IN  [history |-> IF known THEN Append(history, task_cost) ELSE history,
         task_cost |-> task_cost]

\* CostTracker::record_task: the new history and the TaskCost returned
cost_record_task(history, task_id, provider, model, input_tokens, output_tokens) ==
    LET key == pricing_key(provider, model)
        known == key \in DOMAIN pricing
        input_cost == IF known
                      THEN input_tokens * pricing[key].input_cost_per_1k
                      ELSE 0
        output_cost == IF known
                       THEN output_tokens * pricing[key].output_cost_per_1k
                       ELSE 0
        task_cost == [task_id |-> task_id, provider |-> provider,
                      model |-> model, input_tokens |-> input_tokens,
                      output_tokens |-> output_tokens,
                      input_cost |-> input_cost, output_cost |-> output_cost,
                      total_cost |-> input_cost + output_cost]
    IN  [history |-> Append(history, task_cost), task_cost |-> task_cost]

\* *map.entry(key).or_insert(0.0) += amount
EntryAdd(map, key, amount) ==
    [k \in DOMAIN map \cup {key} |->
        (IF k \in DOMAIN map THEN map[k] ELSE 0)
        + (IF k = key THEN amount ELSE 0)]

EmptyMap == [k \in {} |-> 0]

\* CostTracker::get_summary: the loop over history.  The token totals are
\* u64 sums of u32 counts, which a history of fewer than 2^32 entries
\* cannot overflow
cost_get_summary(history) ==
    LET loop[n \in 0..Len(history)] ==
            IF n = 0
            THEN [total_input_tokens |-> 0, total_output_tokens |-> 0,
                  total_cost |-> 0, cost_by_provider |-> EmptyMap,
                  cost_by_model |-> EmptyMap]
            ELSE LET acc == loop[n - 1]
                     task == history[n]
                 IN  [total_input_tokens |->
                          acc.total_input_tokens + task.input_tokens,
                      total_output_tokens |->
                          acc.total_output_tokens + task.output_tokens,
                      total_cost |-> acc.total_cost + task.total_cost,
                      cost_by_provider |->
                          EntryAdd(acc.cost_by_provider, task.provider,
                                   task.total_cost),
                      cost_by_model |->
                          EntryAdd(acc.cost_by_model, task.model,
                                   task.total_cost)]
        end == loop[Len(history)]
    IN  [total_tasks |-> Len(history),
         total_input_tokens |-> end.total_input_tokens,
         total_output_tokens |-> end.total_output_tokens,
         total_cost |-> end.total_cost,
         cost_by_provider |-> end.cost_by_provider,
         cost_by_model |-> end.cost_by_model]

\* CostTracker::clear_history
cost_clear_history(history) == <<>>

Recorded(provider, model, input_tokens, output_tokens) ==
    [op |-> "record", provider |-> provider, model |-> model,
     input_tokens |-> input_tokens, output_tokens |-> output_tokens]
CostCleared ==
    [op |-> "clear", provider |-> "", model |-> "", input_tokens |-> 0,
     output_tokens |-> 0]

CostRecordTask ==
    /\ Len(cost_log) < MaxRecords
    /\ \E pm \in ProviderModels, tokens \in TokenCounts :
         /\ cost_history' =
                cost_record_task(cost_history, "task", pm[1], pm[2],
                                 tokens[1], tokens[2]).history
         /\ cost_log' = Append(cost_log,
                               Recorded(pm[1], pm[2], tokens[1], tokens[2]))
    /\ UNCHANGED <<parserVars, storeVars, summary_out, cmdVars>>

CostGetSummary ==
    /\ summary_out' = Some([summary |-> cost_get_summary(cost_history),
                            at |-> Len(cost_log)])
    /\ UNCHANGED <<parserVars, storeVars, cost_history, cost_log, cmdVars>>

CostClearHistory ==
    /\ Len(cost_log) < MaxRecords
    /\ cost_history' = cost_clear_history(cost_history)
    /\ cost_log' = Append(cost_log, CostCleared)
    /\ UNCHANGED <<parserVars, storeVars, summary_out, cmdVars>>

CostInit == ParserIdle /\ RuntimeIdle

CostNext ==
    \/ CostRecordTask
    \/ CostGetSummary
    \/ CostClearHistory

CostSpec == CostInit /\ [][CostNext]_vars

\* ------------------------------------------------- the runtime commands
MaxChunks == 3

\* StreamChunk (tokens left out), and the Err item of a stream
StreamChunk(content, done) == [ok |-> TRUE, content |-> content, done |-> done]
StreamError == [ok |-> FALSE, content |-> "", done |-> FALSE]

ChunkItems ==
    {StreamChunk("x", FALSE), StreamChunk("y", FALSE), StreamChunk("z", TRUE),
     StreamError}

\* what the stream of a provider may yield before it ends
Streams == UNION {[1..n -> ChunkItems] : n \in 0..MaxChunks}

StreamEvent(chunk) == [content |-> chunk.content, done |-> chunk.done]

\* GoblinRuntime::new: the providers map (ollama always, openai with a key)
providers == {"ollama", "openai"}

\* ExecuteRequest.provider
RequestedProviders == {None, Some("openai"), Some("nope")}

\* request.provider.unwrap_or("ollama")
provider_name(provider) == IF provider = None THEN "ollama" ELSE Unwrap(provider)

\* GenerateResponse.model of a provider
ResponseModels(name) == {pm[2] : pm \in {q \in ProviderModels : q[1] = name}}

\* GenerateResponse.tokens
ResponseTokens == {None, Some(<<1000, 500>>)}

\* Result<GoblinResponse, String> of a command (Result<String, _> of
\* generate_stream_collect): the text and the cost returned, or the step
\* that failed
CommandOk(reasoning, cost) ==
    [ok |-> TRUE, reasoning |-> reasoning, cost |-> cost, error |-> ""]
CommandErr(error) ==
    [ok |-> FALSE, reasoning |-> "", cost |-> None, error |-> error]

\* the loop of generate_stream_collect as it would be without its break
collect_loop_no_break(acc, chunk) ==
    IF ~chunk.ok THEN [full |-> acc, next |-> "return_err"]
    ELSE [full |-> acc \o chunk.content, next |-> "continue"]

\* generate_stream_collect: one turn of the while loop on the item chunk
collect_loop(acc, chunk) ==
    IF ~chunk.ok THEN [full |-> acc, next |-> "return_err"]
    ELSE [full |-> acc \o chunk.content,
          next |-> IF chunk.done THEN "break" ELSE "continue"]

\* the loop of execute_task_streaming as it would be if an error item made
\* the call return the error, as it does in generate_stream_collect
streaming_loop_error_returns(acc, events, chunk) ==
    IF ~chunk.ok
    THEN [full_response |-> acc, emitted |-> events, next |-> "return_err"]
    ELSE [full_response |-> acc \o chunk.content,
          emitted |-> Append(events, StreamEvent(chunk)),
          next |-> IF chunk.done THEN "break" ELSE "continue"]

\* execute_task_streaming: one turn of the while loop on the item chunk
streaming_loop(acc, events, chunk) ==
    IF ~chunk.ok
    THEN [full_response |-> acc, emitted |-> events, next |-> "break"]
    ELSE [full_response |-> acc \o chunk.content,
          emitted |-> Append(events, StreamEvent(chunk)),
          next |-> IF chunk.done THEN "break" ELSE "continue"]

\* execute_task_streaming, line 379: runtime.lock().await
StreamingLock ==
    /\ st_pc = "idle"
    /\ lock = None
    /\ lock' = Some("execute_task_streaming")
    /\ st_pc' = "open"
    /\ UNCHANGED <<parserVars, storeVars, costVars, stream, st_i,
                   full_response, emitted, st_result, collectVars,
                   executeVars, po_pc>>

\* lines 380-393: the provider is looked up and the stream is opened; either
\* may fail, and the error return drops the lock
StreamingOpen ==
    /\ st_pc = "open"
    /\ \E provider \in RequestedProviders, open_ok \in BOOLEAN :
         IF provider_name(provider) \notin providers
         THEN /\ st_result' = Some(CommandErr("provider"))
              /\ st_pc' = "returned"
              /\ lock' = None
         ELSE IF ~open_ok
         THEN /\ st_result' = Some(CommandErr("open"))
              /\ st_pc' = "returned"
              /\ lock' = None
         ELSE /\ st_pc' = "consume"
              /\ UNCHANGED <<st_result, lock>>
    /\ UNCHANGED <<parserVars, storeVars, costVars, stream, st_i,
                   full_response, emitted, collectVars, executeVars, po_pc>>

\* lines 396-420: stream.next().await and the body of the loop; the lock is
\* dropped where the block ends
StreamingNext ==
    /\ st_pc = "consume"
    /\ IF st_i < Len(stream)
       THEN LET turn == streaming_loop(full_response, emitted,
                                       stream[st_i + 1])
            IN  /\ st_i' = st_i + 1
                /\ full_response' = turn.full_response
                /\ emitted' = turn.emitted
                /\ CASE turn.next = "continue" ->
                            UNCHANGED <<st_pc, lock, st_result>>
                     [] turn.next = "break" ->
                            /\ st_pc' = "relock"
                            /\ lock' = None
                            /\ UNCHANGED st_result
                     [] OTHER ->
                            /\ st_pc' = "returned"
                            /\ lock' = None
                            /\ st_result' = Some(CommandErr("chunk"))
       ELSE /\ st_pc' = "relock"
            /\ lock' = None
            /\ UNCHANGED <<st_i, full_response, emitted, st_result>>
    /\ UNCHANGED <<parserVars, storeVars, costVars, stream, collectVars,
                   executeVars, po_pc>>

\* line 425: runtime.lock().await
StreamingRelock ==
    /\ st_pc = "relock"
    /\ lock = None
    /\ lock' = Some("execute_task_streaming")
    /\ st_pc' = "save"
    /\ UNCHANGED <<parserVars, storeVars, costVars, stream, st_i,
                   full_response, emitted, st_result, collectVars,
                   executeVars, po_pc>>

\* lines 426-452: the entry is saved under the id task_id and the response
\* is returned with cost: None
StreamingSave ==
    /\ st_pc = "save"
    /\ \E timestamp \in Timestamps, db_ok \in BOOLEAN :
         LET entry == MemoryEntry("task_id", "g", full_response, timestamp)
             r == memory_save(memory, entry, db_ok)
         IN  /\ memory' = r.memory
             /\ store_log' = IF r.ok THEN Append(store_log, Saved(entry))
                             ELSE store_log
             /\ st_result' = Some(IF r.ok THEN CommandOk(full_response, None)
                                  ELSE CommandErr("save"))
    /\ st_pc' = "returned"
    /\ lock' = None
    /\ UNCHANGED <<parserVars, history_out, costVars, stream, st_i,
                   full_response, emitted, collectVars, executeVars, po_pc>>

\* generate_stream_collect, lines 138-144: it takes &mut self, so it runs
\* with the runtime to itself; the provider is looked up and the stream is
\* opened
CollectOpen ==
    /\ gc_pc = "idle"
    /\ lock = None
    /\ \E name \in providers \cup {"nope"}, open_ok \in BOOLEAN :
         IF name \notin providers
         THEN /\ gc_result' = Some(CommandErr("provider"))
              /\ gc_pc' = "returned"
              /\ UNCHANGED lock
         ELSE IF ~open_ok
         THEN /\ gc_result' = Some(CommandErr("open"))
              /\ gc_pc' = "returned"
              /\ UNCHANGED lock
         ELSE /\ gc_pc' = "consume"
              /\ lock' = Some("generate_stream_collect")
              /\ UNCHANGED gc_result
    /\ UNCHANGED <<parserVars, storeVars, costVars, stream, streamingVars,
                   gc_i, full, executeVars, po_pc>>

\* lines 145-153: stream.next().await and the body of the loop
CollectNext ==
    /\ gc_pc = "consume"
    /\ IF gc_i < Len(stream)
       THEN LET turn == collect_loop(full, stream[gc_i + 1])
            IN  /\ gc_i' = gc_i + 1
                /\ full' = turn.full
                /\ CASE turn.next = "continue" ->
                            UNCHANGED <<gc_pc, lock, gc_result>>
                     [] turn.next = "break" ->
                            /\ gc_pc' = "returned"
                            /\ lock' = None
                            /\ gc_result' = Some(CommandOk(turn.full, None))
                     [] OTHER ->
                            /\ gc_pc' = "returned"
                            /\ lock' = None
                            /\ gc_result' = Some(CommandErr("chunk"))
       ELSE /\ gc_pc' = "returned"
            /\ lock' = None
            /\ gc_result' = Some(CommandOk(full, None))
            /\ UNCHANGED <<gc_i, full>>
    /\ UNCHANGED <<parserVars, storeVars, costVars, stream, streamingVars,
                   executeVars, po_pc>>

\* execute_task (the command), line 350: runtime.lock().await
ExecuteLock ==
    /\ ex_pc = "idle"
    /\ lock = None
    /\ lock' = Some("execute_task")
    /\ ex_pc' = "run"
    /\ UNCHANGED <<parserVars, storeVars, costVars, stream, streamingVars,
                   collectVars, ex_result, po_pc>>

\* what GoblinRuntime::execute_task returns
ExecuteReturn(r, cost_after, memory_after) ==
    Some([result |-> r,
          cost_before |-> cost_history, cost_after |-> cost_after,
          memory_before |-> memory, memory_after |-> memory_after])

\* GoblinRuntime::execute_task, lines 175-243, under the lock of line 350:
\* provider lookup, generate, record_task if the response counts tokens,
\* then save
ExecuteRun ==
    /\ ex_pc = "run"
    /\ \E provider \in RequestedProviders, generate_ok \in BOOLEAN,
          tokens \in ResponseTokens, timestamp \in Timestamps,
          db_ok \in BOOLEAN :
         LET name == provider_name(provider)
         IN  IF name \notin providers
             THEN /\ ex_result' = ExecuteReturn(CommandErr("provider"),
                                                cost_history, memory)
                  /\ UNCHANGED <<storeVars, costVars>>
             ELSE IF ~generate_ok
             THEN /\ ex_result' = ExecuteReturn(CommandErr("generate"),
                                                cost_history, memory)
                  /\ UNCHANGED <<storeVars, costVars>>
             ELSE \E model \in ResponseModels(name) :
                    LET rec == cost_record_task(
                                   cost_history, "uuid", name, model,
                                   Unwrap(tokens)[1], Unwrap(tokens)[2])
                        task_cost == IF tokens = None THEN None
                                     ELSE Some(rec.task_cost)
                        entry == MemoryEntry("entry_id", "g", "r", timestamp)
                        r == memory_save(memory, entry, db_ok)
                    IN  /\ cost_history' = IF tokens = None THEN cost_history
                                           ELSE rec.history
                        /\ cost_log' =
                              IF tokens = None THEN cost_log
                              ELSE Append(cost_log,
                                          Recorded(name, model,
                                                   Unwrap(tokens)[1],
                                                   Unwrap(tokens)[2]))
                        /\ memory' = r.memory
                        /\ store_log' =
                              IF r.ok THEN Append(store_log, Saved(entry))
                              ELSE store_log
                        /\ ex_result' =
                              ExecuteReturn(
                                  IF r.ok THEN CommandOk("r", task_cost)
                                  ELSE CommandErr("save"),
                                  cost_history', memory')
                        /\ UNCHANGED <<history_out, summary_out>>
    /\ ex_pc' = "returned"
    /\ lock' = None
    /\ UNCHANGED <<parserVars, stream, streamingVars, collectVars, po_pc>>

\* parse_orchestration (the command) is invoked and reaches line 493:
\* runtime.lock().await
ParseOrchestrationCall ==
    /\ po_pc = "idle"
    /\ po_pc' = "waiting"
    /\ UNCHANGED <<parserVars, storeVars, costVars, lock, stream,
                   streamingVars, collectVars, executeVars>>

\* lines 493-495: with the lock, OrchestrationParser::parse runs (it touches
\* no field of the runtime) and the command returns, dropping the lock
ParseOrchestrationRun ==
    /\ po_pc = "waiting"
    /\ lock = None
    /\ po_pc' = "returned"
    /\ UNCHANGED <<parserVars, storeVars, costVars, lock, stream,
                   streamingVars, collectVars, executeVars>>

RuntimeInit ==
    /\ ParserIdle
    /\ StoreIdle
    /\ CostIdle
    /\ CommandsIdle
    /\ stream \in Streams

RuntimeNext ==
    \/ StreamingLock
    \/ StreamingOpen
    \/ StreamingNext
    \/ StreamingRelock
    \/ StreamingSave
    \/ CollectOpen
    \/ CollectNext
    \/ ExecuteLock
    \/ ExecuteRun
    \/ ParseOrchestrationCall
    \/ ParseOrchestrationRun

RuntimeSpec == RuntimeInit /\ [][RuntimeNext]_vars

\* =============================================================== claims
Done == pc = "done"
Returned == IsSome(result) /\ Unwrap(result).ok
Failed == IsSome(result) /\ ~Unwrap(result).ok
ThePlan == Unwrap(Unwrap(result).plan)
StepIdx == 1..Len(steps)

\* the steps produced by phase n, in clause order, and their ids
PhaseMembers(n) == {i \in StepIdx : step_phase[i] = n}
RECURSIVE IdsFrom(_, _)
IdsFrom(i, n) ==
    IF i > Len(steps) THEN <<>>
    ELSE (IF step_phase[i] = n THEN <<steps[i].id>> ELSE <<>>) \o IdsFrom(i + 1, n)
PhaseIds(n) == IdsFrom(1, n)
DepIds(i) == {steps[i].dependencies[k] : k \in 1..Len(steps[i].dependencies)}

\* C1: in every returned plan, every id in a step's dependencies is the id of
\* a step of the plan that stands at a strictly smaller index and was
\* produced by the phase immediately before the step's own phase.
C1_DependenciesPointToPreviousPhase ==
    Returned =>
        /\ ThePlan.steps = steps
        /\ \A i \in StepIdx : \A d \in DepIds(i) :
             \E j \in 1..(i - 1) :
                /\ ThePlan.steps[j].id = d
                /\ step_phase[j] = step_phase[i] - 1

\* a returned plan of three phases whose last step depends on two steps, two
\* of the generated ids being equal
C1_Witness ==
    /\ Returned
    /\ Collisions(steps) > 0
    /\ \E i \in StepIdx : step_phase[i] = 3 /\ Cardinality(DepIds(i)) = 2

\* C2: every step of phase N has as dependencies exactly the list of the ids
\* of the steps of phase N-1, in clause order (the empty list in the first
\* phase); so the steps of one phase have the same dependencies and no
\* dependency id of a step resolves to a step of its own phase.
C2_DependenciesAreWholePreviousPhase ==
    Returned =>
        /\ \A i \in StepIdx :
             /\ ThePlan.steps[i].dependencies = PhaseIds(step_phase[i] - 1)
             /\ step_phase[i] = 1 => ThePlan.steps[i].dependencies = <<>>
        /\ \A i, j \in StepIdx :
             step_phase[i] = step_phase[j] =>
                /\ steps[i].dependencies = steps[j].dependencies
                /\ \A d \in DepIds(i) : FindStep(steps, d) # j

\* a returned plan in which a phase of two clauses follows a phase of two
\* clauses
C2_Witness ==
    /\ Returned
    /\ \E i, j \in StepIdx :
         /\ i # j
         /\ step_phase[i] = step_phase[j]
         /\ Len(steps[i].dependencies) = 2

\* t is one of the steps that s was bound to by the dependency binder
IsDependency(t, s) ==
    /\ steps[t].id \in DepIds(s)
    /\ step_phase[t] = step_phase[s] - 1

\* C3: in every returned plan, every dependency of a step of depth d has
\* depth exactly d - 1 (so strictly less than d), no step depends on a step
\* of its own batch, and no step is its own dependency: running the batches
\* in order of computed depth never starts a step before its dependencies.
C3_BatchOrderRespectsDependencies ==
    Returned =>
        \A s, t \in StepIdx :
            IsDependency(t, s) =>
                /\ step_depths[t] = step_depths[s] - 1
                /\ step_depths[t] # step_depths[s]
                /\ t # s

\* depth as section 4.5 defines it, each id resolved by first match
RECURSIVE DepthOf(_, _)
DepthOf(all_steps, i) ==
    LET deps == all_steps[i].dependencies
    IN  IF deps = <<>> THEN 0
        ELSE 1 + Unwrap(MaxOf([k \in 1..Len(deps) |->
                                  DepthOf(all_steps, FindStep(all_steps, deps[k]))]))

\* C4: parallel_batches of a returned plan is the maximum over its steps of
\* depth(step), plus 1, and is 1 for a plan without steps.
C4_ParallelBatchesIsMaxDepthPlusOne ==
    Returned =>
        LET all_steps == ThePlan.steps
            n == Len(all_steps)
        IN  ThePlan.metadata.parallel_batches =
                IF n = 0 THEN 1
                ELSE 1 + Unwrap(MaxOf([i \in 1..n |-> DepthOf(all_steps, i)]))

\* a returned plan of at least three batches with two equal generated ids
C4_Witness ==
    /\ Returned
    /\ Collisions(steps) > 0
    /\ ThePlan.metadata.parallel_batches >= 3

\* C5: for every input that compiles to at least one step, parallel_batches
\* is the number of non-empty THEN-separated phases of the input and the
\* depth of every step is the zero-based index of its phase.
C5_BatchesEqualPhases ==
    (Returned /\ Len(steps) >= 1) =>
        /\ ThePlan.metadata.parallel_batches = Len(split_by_operator(text, kwTHEN))
        /\ \A i \in StepIdx : step_depths[i] = step_phase[i] - 1

\* every frame of the recursion measures a step that stands strictly before
\* the step of the frame that called it
StackDescends == \A k \in 2..Len(stack) : stack[k].step < stack[k - 1].step

\* C6: get_step_depth terminates for every step of every plan the parser can
\* build, equal generated ids included: each dependency id resolves to a step
\* strictly earlier in the step list, and calculate_batches, once started,
\* always comes to its end.
C6_DepthRecursionTerminates ==
    /\ [](StackDescends /\ Len(stack) < MaxStack)
    /\ (pc = "batches") ~> Done

\* the recursion three activations deep in a plan with two equal ids
C6_Witness ==
    /\ pc = "batches"
    /\ Len(stack) >= 3
    /\ Collisions(steps) > 0

WhitespaceOnly(t) == \A i \in 1..Len(t) : IsWs(t[i])
LeadingOperator(t) ==
    \E op \in {kwTHEN, kwAND, kwIF} : StartsWith(Trim(t), op \o <<Sp>>)
DoubledOperator(t) ==
    \E op \in {kwTHEN, kwAND} :
        \E i \in 1..Len(t) : MatchAt(t, <<Sp>> \o op \o <<Sp>> \o op \o <<Sp>>, i)

\* C7: parse returns a plan for every text that is not empty or whitespace
\* only, whose trimmed form does not start with "THEN ", "AND " or "IF ", and
\* that contains neither " THEN THEN " nor " AND AND ".
C7_ValidTextCompiles ==
    (Done /\ ~WhitespaceOnly(text) /\ ~LeadingOperator(text) /\ ~DoubledOperator(text))
        => (Returned /\ Unwrap(result).err = None)

\* a plan of two batches returned for a text of three clauses, no default
\* worker given
C7_Witness ==
    /\ Returned
    /\ default_goblin_id = None
    /\ Len(steps) = 3
    /\ ThePlan.metadata.parallel_batches = 2

\* C8: parse fails whenever the text is empty or whitespace only, whatever
\* the default worker id.
C8_BlankTextFails ==
    (Done /\ WhitespaceOnly(text)) => (Failed /\ Unwrap(result).plan = None)

\* the failure for a text of a space and a tab, a default worker given
C8_Witness ==
    /\ Failed
    /\ default_goblin_id # None
    /\ WhitespaceOnly(text)
    /\ \E i, j \in 1..Len(text) : text[i] = Sp /\ text[j] = Tab

\* C9: parse fails whenever the trimmed text starts with "THEN ", "AND " or
\* "IF ", or the text contains " THEN THEN " or " AND AND ".
C9_MalformedOperatorsFail ==
    (Done /\ (LeadingOperator(text) \/ DoubledOperator(text)))
        => (Failed /\ Unwrap(result).err = Some(ErrSyntax))

\* the failure for a text with a doubled operator and no leading operator
C9_Witness ==
    /\ Failed
    /\ DoubledOperator(text)
    /\ ~LeadingOperator(text)

\* C10: a failing parse returns the error alone and failed in validation:
\* no phase was split, no clause parsed, no id generated, no step built.
C10_FailureLeavesNothing ==
    Failed =>
        /\ Unwrap(result).plan = None
        /\ phases = <<>> /\ phase_i = 0
        /\ parallel_tasks = <<>> /\ task_i = 0
        /\ steps = <<>> /\ current_phase_step_ids = <<>>
        /\ batch_i = 0

\* the failure for a text that the phase split would cut in two phases
C10_Witness ==
    /\ Failed
    /\ Len(split_by_operator(text, kwTHEN)) >= 2

\* ------------------------------------------------- clauses of the input
IsText(x) == x # <<>>
\* the non-empty trimmed pieces of s between the occurrences of " op "
PiecesBetween(s, op) ==
    LET raw == Split(s, <<Sp>> \o op \o <<Sp>>)
    IN  SelectSeq([i \in 1..Len(raw) |-> Trim(raw[i])], IsText)

\* the clauses of the input, phase by phase in clause order, each with the
\* number of its phase
RECURSIVE ClausesFrom(_, _)
ClausesFrom(phs, n) ==
    IF n > Len(phs) THEN <<>>
    ELSE LET cs == PiecesBetween(phs[n], kwAND)
         IN  [i \in 1..Len(cs) |-> [clause |-> cs[i], phase |-> n]]
                \o ClausesFrom(phs, n + 1)
InputClauses == ClausesFrom(PiecesBetween(text, kwTHEN), 1)

\* the step st is the one parse_task reads from clause c
StepFromClause(c, st) ==
    LET parsed == ParseCondition(c)
    IN  /\ st.condition = parsed[2]
        /\ st.task = ParseGoblin(parsed[1], None)[2]

\* C11: every non-empty clause of every non-empty phase compiles to exactly
\* one step; the steps stand in phase order and, within a phase, in clause
\* order; total_steps is the length of plan.steps and the number of clauses.
C11_OneStepPerClauseInOrder ==
    Returned =>
        LET ics == InputClauses
        IN  /\ ThePlan.metadata.total_steps = Len(ThePlan.steps)
            /\ Len(ThePlan.steps) = Len(ics)
            /\ \A k \in 1..Len(ics) :
                 /\ step_phase[k] = ics[k].phase
                 /\ StepFromClause(ics[k].clause, ThePlan.steps[k])

\* a returned plan whose two steps come from two different clauses of one
\* phase
C11_Witness ==
    /\ Returned
    /\ Len(steps) = 2
    /\ step_phase[1] = step_phase[2]
    /\ steps[1].task # steps[2].task
    /\ steps[1].condition # steps[2].condition

\* the body of clause c: the clause after condition-suffix removal
BodyOf(c) == ParseCondition(c)[1]
\* offset of the first ':' of a body (-1 when there is none), and the text
\* before and after it
ColonOffset(body) == Find(body, <<":">>) - 1
Prefix(body) == Take(body, ColonOffset(body))
Remainder(body) == Drop(body, ColonOffset(body) + 1)
PrefixOk(body) ==
    /\ ColonOffset(body) < GoblinIdLimit
    /\ ~Contains(Prefix(body), <<Sp>>)
    /\ Len(Prefix(body)) < GoblinIdLimit

\* the prefix before a ':' at an offset of at least least is the worker id
\* of st and the remainder its task
PrefixRule(body, least, st) ==
    (ColonOffset(body) >= least /\ PrefixOk(body)) =>
        /\ st.goblin_id = Trim(Prefix(body))
        /\ st.task = Trim(Remainder(body))

HasWorkerPrefix(body) == ColonOffset(body) >= 1 /\ PrefixOk(body)

\* the worker id clause k of ics is to get when it has no prefix: that of the
\* nearest earlier clause of its phase with a prefix, else the default, else
\* "unknown"
InheritedWorker(ics, k) ==
    LET givers == {j \in 1..(k - 1) :
                      /\ ics[j].phase = ics[k].phase
                      /\ HasWorkerPrefix(BodyOf(ics[j].clause))}
    IN  IF givers # {}
        THEN steps[CHOOSE j \in givers : \A i \in givers : j >= i].goblin_id
        ELSE IF IsSome(default_goblin_id) THEN Unwrap(default_goblin_id)
        ELSE strUnknown

\* C13: for every clause without a worker prefix the step's task is the whole
\* body and its worker id is the explicit worker id of the nearest earlier
\* clause of the same phase that had one, else the default worker id, else
\* "unknown".
C13_WorkerInheritedWithinPhase ==
    Returned =>
        LET ics == InputClauses
        IN  \A k \in 1..Len(ics) :
                LET body == BodyOf(ics[k].clause)
                IN  ~HasWorkerPrefix(body) =>
                        /\ ThePlan.steps[k].task = body
                        /\ ThePlan.steps[k].goblin_id = InheritedWorker(ics, k)

\* ------------------------------------------------ conditional suffixes
\* the three conditional forms of a clause c: c is some non-empty text
\* followed by whitespace and IF_SUCCESS or IF_FAILURE at its end, by
\* IF_CONTAINS("value") at its end, or by IF and one of the four words
MatchesKeywordForm(c) ==
    \E j \in 1..Len(c) : \/ TailIsKeyword(Drop(c, j), kwIF_SUCCESS)
                         \/ TailIsKeyword(Drop(c, j), kwIF_FAILURE)
MatchesContainsForm(c) ==
    \E j \in 1..Len(c) : TailContainsValue(Drop(c, j)) # None
MatchesNaturalForm(c) ==
    \E j \in 1..Len(c) : HeadNaturalWord(Drop(c, j)) # None
MatchesNoForm(c) ==
    ~MatchesKeywordForm(c) /\ ~MatchesContainsForm(c) /\ ~MatchesNaturalForm(c)

\* c is <body> <whitespace> kw
EndsWithKeyword(c, kw) ==
    /\ Len(c) >= Len(kw) + 2
    /\ SubSeq(c, Len(c) - Len(kw) + 1, Len(c)) = kw
    /\ IsWs(c[Len(c) - Len(kw)])
BodyBefore(c, kw) == Trim(Take(c, Len(c) - Len(kw)))

\* cond is the condition of the first conditional form c matches, in the
\* order IF_SUCCESS/IF_FAILURE, IF_CONTAINS(...), natural-language IF
FirstFormCondition(c, cond) ==
    LET keyword == MatchesKeywordForm(c)
        contains == MatchesContainsForm(c)
        natural == MatchesNaturalForm(c)
    IN  /\ keyword =>
              /\ cond # None
              /\ Unwrap(cond).operator \in {"IfSuccess", "IfFailure"}
              /\ Unwrap(cond).operator = "IfSuccess"
                    <=> EndsWithKeyword(c, kwIF_SUCCESS)
        /\ (~keyword /\ contains) =>
              /\ cond # None
              /\ Unwrap(cond).operator = "IfContains"
        /\ (~keyword /\ ~contains /\ natural) =>
              /\ cond # None
              /\ Unwrap(cond).operator \in {"IfSuccess", "IfFailure"}
        /\ (~keyword /\ ~contains /\ ~natural) => cond = None

\* C14: the condition of a step is that of the first conditional form its
\* clause matches, in the order IF_SUCCESS/IF_FAILURE, IF_CONTAINS(...),
\* natural-language IF; a clause that matches none has no condition.
C14_ConditionFormPriority ==
    Returned =>
        LET ics == InputClauses
        IN  \A k \in 1..Len(ics) :
                FirstFormCondition(ics[k].clause, ThePlan.steps[k].condition)

\* a returned plan with a clause matching the keyword and the natural form
\* whose word asks for the opposite operator, and a clause matching the
\* IF_CONTAINS and the natural form
C14_Witness ==
    /\ Returned
    /\ LET ics == InputClauses
       IN  /\ \E k \in 1..Len(ics) :
                /\ EndsWithKeyword(ics[k].clause, kwIF_SUCCESS)
                /\ Contains(ics[k].clause, kwIF \o <<Sp>> \o wFailure)
                /\ Unwrap(ThePlan.steps[k].condition).operator = "IfSuccess"
           /\ \E k \in 1..Len(ics) :
                /\ MatchesContainsForm(ics[k].clause)
                /\ MatchesNaturalForm(ics[k].clause)
                /\ Unwrap(ThePlan.steps[k].condition).operator = "IfContains"

\* the step st of a clause c that ends with the keyword kw has the operator
\* op, no value and a task read from the text before the keyword
KeywordRule(c, kw, op, st) ==
    EndsWithKeyword(c, kw) =>
        /\ st.condition # None
        /\ Unwrap(st.condition).operator = op
        /\ Unwrap(st.condition).value = None
        /\ st.task = ParseGoblin(BodyBefore(c, kw), None)[2]
        /\ ~Contains(st.task, kw)

\* C15: a clause <body> IF_SUCCESS (resp. IF_FAILURE) gives a step with the
\* operator IfSuccess (resp. IfFailure), no value, and a task read from the
\* body alone; the clauses that match no conditional form keep no condition,
\* whatever the other clauses of their phase are.
C15_KeywordSuffixCondition ==
    Returned =>
        LET ics == InputClauses
        IN  \A k \in 1..Len(ics) :
                /\ KeywordRule(ics[k].clause, kwIF_SUCCESS, "IfSuccess",
                               ThePlan.steps[k])
                /\ KeywordRule(ics[k].clause, kwIF_FAILURE, "IfFailure",
                               ThePlan.steps[k])
                /\ MatchesNoForm(ics[k].clause) =>
                      ThePlan.steps[k].condition = None

\* a returned plan of one phase: a clause with the IF_FAILURE suffix and a
\* worker prefix, after a clause without condition
C15_Witness ==
    /\ Returned
    /\ LET ics == InputClauses
       IN  /\ Len(ics) = 2
           /\ ics[1].phase = ics[2].phase
           /\ MatchesNoForm(ics[1].clause)
           /\ ThePlan.steps[1].condition = None
           /\ EndsWithKeyword(ics[2].clause, kwIF_FAILURE)
           /\ Unwrap(ThePlan.steps[2].condition).operator = "IfFailure"
           /\ Len(ThePlan.steps[2].task)
                 < Len(BodyBefore(ics[2].clause, kwIF_FAILURE))

\* r is whitespace, IF, whitespace and one of the four words, up to the end
\* of the clause
TailIsNaturalWord(r) ==
    LET e == AfterWsKw(r, kwIF)
        w == SkipWs(r, e)
    IN  /\ HeadNaturalWord(r) # None
        /\ SkipWs(r, w + Len(Unwrap(HeadNaturalWord(r)))) = Len(r) + 1

\* the length of clause c without its trailing conditional suffix (Len(c)
\* when no conditional form is the trailing suffix of c)
SuffixStart(c) ==
    LET js == {j \in 1..Len(c) :
                  \/ TailIsKeyword(Drop(c, j), kwIF_SUCCESS)
                  \/ TailIsKeyword(Drop(c, j), kwIF_FAILURE)
                  \/ TailContainsValue(Drop(c, j)) # None
                  \/ TailIsNaturalWord(Drop(c, j))}
    IN  IF js = {} THEN Len(c) ELSE CHOOSE j \in js : \A i \in js : j <= i

\* st has a condition exactly when a conditional form is the trailing suffix
\* of c, and its task is read from c without that suffix
TrailingSuffixRule(c, st) ==
    LET start == SuffixStart(c)
    IN  /\ st.condition # None <=> start < Len(c)
        /\ st.task = ParseGoblin(Trim(Take(c, start)), None)[2]

\* C16: a step has a condition exactly when a conditional form is the trailing
\* suffix of its clause, and its task is read from the clause without that
\* suffix and nothing else; a clause where text follows the natural-language
\* form has no condition and its whole text as body.
C16_OnlyTrailingSuffixStripped ==
    Returned =>
        LET ics == InputClauses
        IN  \A k \in 1..Len(ics) :
                TrailingSuffixRule(ics[k].clause, ThePlan.steps[k])

StepCondition(k) == ThePlan.steps[k].condition

\* C17: in every returned plan every condition has the step_id "previous",
\* and its value is present exactly when its operator is IfContains.
C17_ConditionPlaceholderAndValue ==
    Returned =>
        \A k \in 1..Len(ThePlan.steps) :
            StepCondition(k) # None =>
                /\ Unwrap(StepCondition(k)).step_id = "previous"
                /\ Unwrap(StepCondition(k)).value # None
                      <=> Unwrap(StepCondition(k)).operator = "IfContains"

\* a returned plan with an IfContains condition holding the value x and a
\* condition of another operator
C17_Witness ==
    /\ Returned
    /\ \E k \in 1..Len(ThePlan.steps) :
         /\ StepCondition(k) # None
         /\ Unwrap(StepCondition(k)).operator = "IfContains"
         /\ Unwrap(StepCondition(k)).value = Some(<<"x">>)
    /\ \E k \in 1..Len(ThePlan.steps) :
         /\ StepCondition(k) # None
         /\ Unwrap(StepCondition(k)).operator = "IfFailure"

\* C18: the step ids of a returned plan are pairwise distinct.
C18_StepIdsDistinct ==
    Returned =>
        \A i, j \in 1..Len(ThePlan.steps) :
            i # j => ThePlan.steps[i].id # ThePlan.steps[j].id

\* C20: with ms = parallel_batches * 2000, estimated_duration is
\* max(ms div 1000, 1) followed by "s" when ms < 60000 and max(ms div 60000, 1)
\* followed by "m" otherwise; 3 batches give "6s", 29 give "58s", 30 give "1m".
C20_EstimatedDuration ==
    Returned =>
        LET b == ThePlan.metadata.parallel_batches
            ms == b * 2000
            d == ThePlan.metadata.estimated_duration
        IN  /\ ms < 60000 =>
                  d = Some(Decimal(IF ms \div 1000 >= 1 THEN ms \div 1000 ELSE 1)
                              \o <<"s">>)
            /\ ms >= 60000 =>
                  d = Some(Decimal(IF ms \div 60000 >= 1 THEN ms \div 60000 ELSE 1)
                              \o <<"m">>)
            /\ b = 3 => d = Some(<<"6", "s">>)
            /\ b = 29 => d = Some(<<"5", "8", "s">>)
            /\ b = 30 => d = Some(<<"1", "m">>)

\* the returned plan of 30 batches, the first to be estimated in minutes
C20_Witness ==
    /\ Returned
    /\ ThePlan.metadata.parallel_batches = 30
    /\ ThePlan.metadata.estimated_duration = Some(<<"1", "m">>)

WithoutIds(plan) ==
    [plan EXCEPT !.steps =
        [k \in 1..Len(plan.steps) |->
            [plan.steps[k] EXCEPT !.id = 0,
                                  !.dependencies = Len(plan.steps[k].dependencies)]]]

\* C21: two calls of parse with the same arguments return plans that agree on
\* every field except the generated ids and the dependency ids.
C21_SameArgumentsSamePlan ==
    (Returned /\ earlier # None /\ Unwrap(earlier).text = text) =>
        WithoutIds(ThePlan) = WithoutIds(Unwrap(earlier).plan)

\* C23: every step of a plan under construction or returned has status
\* Pending and result None, and every returned plan has status Pending.
C23_CompilerEmitsPending ==
    /\ \A k \in 1..Len(steps) :
          steps[k].status = "Pending" /\ steps[k].result = None
    /\ Returned =>
          /\ ThePlan.status = "Pending"
          /\ \A k \in 1..Len(ThePlan.steps) :
                /\ ThePlan.steps[k].status = "Pending"
                /\ ThePlan.steps[k].result = None

\* a returned plan of two phases whose second step has a condition
C23_Witness ==
    /\ Returned
    /\ Len(ThePlan.steps) = 2
    /\ ThePlan.steps[2].dependencies # <<>>
    /\ ThePlan.steps[2].condition # None
    /\ ThePlan.status = "Pending"

\* C29: every step with a condition has at least one dependency; no step of
\* the first phase has a condition.
C29_ConditionHasPredecessor ==
    Returned =>
        \A k \in 1..Len(ThePlan.steps) :
            ThePlan.steps[k].condition # None =>
                /\ ThePlan.steps[k].dependencies # <<>>
                /\ step_phase[k] > 1

\* C30: every returned plan has at least one step.
C30_PlanHasAStep ==
    Returned =>
        /\ ThePlan.metadata.total_steps >= 1
        /\ Len(ThePlan.steps) >= 1

\* the entries saved by the first n calls of the log and not cleared by a
\* later one of them
Live(log, n) ==
    {log[i].entry : i \in {i \in 1..n :
        /\ log[i].op = "save"
        /\ \A j \in (i + 1)..n :
              ~(log[j].op = "clear" /\ log[j].goblin = log[i].goblin)}}

\* rows is what get_history(goblin, limit) is to return from the entries live
HistoryRule(rows, goblin, limit, live) ==
    LET mine == {e \in live : e.goblin = goblin}
        got == {rows[i] : i \in 1..Len(rows)}
    IN  /\ \A i \in 1..Len(rows) : rows[i].goblin = goblin
        /\ Len(rows) <= limit
        /\ \A i \in 1..(Len(rows) - 1) :
              rows[i].timestamp >= rows[i + 1].timestamp
        /\ Cardinality(got) = Len(rows)
        /\ got \subseteq mine
        /\ Len(rows) = (IF Cardinality(mine) < limit THEN Cardinality(mine)
                        ELSE limit)
        /\ \A e \in mine \ got : \A r \in got : e.timestamp <= r.timestamp

\* C24: the table holds exactly the entries saved and not cleared since by a
\* clear_history of their worker; get_history(worker, limit) with limit >= 0
\* returns at most limit of that worker's entries, newest first, none of them
\* older than an entry of the worker it leaves out.
C24_HistoryIsRecentPerWorker ==
    /\ {memory[i] : i \in 1..Len(memory)} = Live(store_log, Len(store_log))
    /\ Cardinality({memory[i] : i \in 1..Len(memory)}) = Len(memory)
    /\ (history_out # None /\ Unwrap(history_out).limit >= 0) =>
          HistoryRule(Unwrap(history_out).rows, Unwrap(history_out).goblin,
                      Unwrap(history_out).limit,
                      Live(store_log, Unwrap(history_out).at))

\* get_history with limit 1 for a worker with two live entries of different
\* timestamps, after a clear_history
C24_Witness ==
    /\ history_out # None
    /\ Unwrap(history_out).limit = 1
    /\ Len(Unwrap(history_out).rows) = 1
    /\ Unwrap(history_out).at = Len(store_log)
    /\ \E i \in 1..Len(store_log) : store_log[i].op = "clear"
    /\ \E i, j \in 1..Len(memory) :
          /\ memory[i].goblin = Unwrap(history_out).goblin
          /\ memory[j].goblin = Unwrap(history_out).goblin
          /\ memory[i].timestamp < memory[j].timestamp

\* the record_task calls among the first n calls of the log that no later
\* clear_history among them follows
SinceClear(log, n) ==
    {i \in 1..n : /\ log[i].op = "record"
                  /\ \A j \in (i + 1)..n : log[j].op # "clear"}

\* the sum of a token count over the calls since the last clear_history
TokensSinceClear(log, n, field) ==
    LET sum[k \in 0..n] ==
            IF k = 0 THEN 0
            ELSE IF log[k].op = "clear" THEN 0
            ELSE sum[k - 1] + (IF field = "input" THEN log[k].input_tokens
                               ELSE log[k].output_tokens)
    IN  sum[n]

\* C25: the cost history holds one entry per record_task call since the last
\* clear_history (get_summary never changes it), and a summary reports the
\* number of those calls, the sums of their token counts, and a
\* cost_by_provider key for each of their providers.
C25_SummaryCountsCallsSinceClear ==
    /\ Len(cost_history) = Cardinality(SinceClear(cost_log, Len(cost_log)))
    /\ summary_out # None =>
          LET s == Unwrap(summary_out).summary
              at == Unwrap(summary_out).at
              calls == SinceClear(cost_log, at)
          IN  /\ s.total_tasks = Cardinality(calls)
              /\ s.total_input_tokens = TokensSinceClear(cost_log, at, "input")
              /\ s.total_output_tokens =
                    TokensSinceClear(cost_log, at, "output")
              /\ \A i \in calls :
                    cost_log[i].provider \in DOMAIN s.cost_by_provider

\* a summary taken after a clear_history and two later record_task calls,
\* one of them for a model the pricing table does not know
C25_Witness ==
    /\ summary_out # None
    /\ Unwrap(summary_out).at = Len(cost_log)
    /\ Unwrap(summary_out).summary.total_tasks = 2
    /\ Unwrap(summary_out).summary.total_input_tokens = 3000
    /\ \E i \in 1..Len(cost_log) : cost_log[i].op = "clear"
    /\ \E i \in 1..Len(cost_history) :
          pricing_key(cost_history[i].provider, cost_history[i].model)
              \notin DOMAIN pricing

\* the first item of the stream that is an error or a chunk with done = true
\* (its length if there is none)
StopIndex(s) ==
    IF \E i \in 1..Len(s) : ~s[i].ok \/ s[i].done
    THEN CHOOSE i \in 1..Len(s) :
            /\ ~s[i].ok \/ s[i].done
            /\ \A j \in 1..(i - 1) : s[j].ok /\ ~s[j].done
    ELSE Len(s)

\* the stream ends its consumption with a chunk with done = true, at d
FirstDoneAt(s, d) == d \in 1..Len(s) /\ d = StopIndex(s) /\ s[d].ok

\* the contents of the first n items, in stream order
ContentsTo(s, n) ==
    LET cat[k \in 0..n] == IF k = 0 THEN "" ELSE cat[k - 1] \o s[k].content
    IN  cat[n]

\* the events of the chunks among the first n items, in stream order
EventsTo(s, n) ==
    LET m == IF n > 0 /\ ~s[n].ok THEN n - 1 ELSE n
    IN  [k \in 1..m |-> [content |-> s[k].content, done |-> s[k].done]]

\* execute_task_streaming has left its loop
StreamingLoopLeft ==
    \/ st_pc \in {"relock", "save"}
    \/ st_pc = "returned" /\ Unwrap(st_result).error \notin {"provider", "open"}

\* C26: each consumer holds the contents of the items it took, in stream
\* order, and takes none after the first chunk with done = true; when that
\* chunk is the d-th item, the consumer that finished has taken d items and
\* its text is the concatenation of the first d contents, and the events
\* emitted are those of the first d chunks.
C26_ConsumersStopAtDone ==
    /\ st_i <= StopIndex(stream) /\ gc_i <= StopIndex(stream)
    /\ full_response = ContentsTo(stream, st_i)
    /\ emitted = EventsTo(stream, st_i)
    /\ full = ContentsTo(stream, gc_i)
    /\ \A d \in 1..Len(stream) : FirstDoneAt(stream, d) =>
          /\ StreamingLoopLeft =>
                /\ st_i = d
                /\ full_response = ContentsTo(stream, d)
                /\ emitted = EventsTo(stream, d)
          /\ (st_pc = "returned" /\ Unwrap(st_result).ok) =>
                Unwrap(st_result).reasoning = ContentsTo(stream, d)
          /\ (gc_pc = "returned" /\ Unwrap(gc_result).error
                                        \notin {"provider", "open"}) =>
                /\ gc_i = d
                /\ Unwrap(gc_result) = CommandOk(ContentsTo(stream, d), None)

\* both consumers returned the text of two chunks, the second with
\* done = true, of a stream that had a third item
C26_Witness ==
    /\ Len(stream) = 3
    /\ FirstDoneAt(stream, 2)
    /\ stream[1].content # ""
    /\ st_pc = "returned" /\ Unwrap(st_result).ok
    /\ Unwrap(st_result).reasoning = stream[1].content \o stream[2].content
    /\ Len(emitted) = 2
    /\ gc_pc = "returned" /\ Unwrap(gc_result).ok
    /\ Unwrap(gc_result).reasoning = Unwrap(st_result).reasoning

\* the history records execute_task_streaming saved
StreamingRecords == {i \in 1..Len(memory) : memory[i].id = "task_id"}

\* the streaming call took an error item from the stream
StreamingMetError == st_i > 0 /\ ~stream[st_i].ok

\* C28: a returned execute_task_streaming call that met an error item has
\* taken nothing after it and failed only if the save failed; a call that
\* returned success saved exactly one record, holding the text of the chunks
\* it received, and returned that text; a call that returned an error saved
\* no record and failed at the provider lookup, at opening the stream or at
\* the save; the cost history holds only what execute_task recorded.
C28_StreamErrorKeepsPartialText ==
    /\ st_pc = "returned" =>
          LET r == Unwrap(st_result)
          IN  /\ StreamingMetError =>
                    /\ r.ok \/ r.error = "save"
                    /\ st_i = StopIndex(stream)
                    /\ full_response = ContentsTo(stream, st_i - 1)
              /\ r.ok =>
                    /\ Cardinality(StreamingRecords) = 1
                    /\ \A i \in StreamingRecords :
                          memory[i].response = ContentsTo(stream, st_i)
                    /\ r.reasoning = ContentsTo(stream, st_i)
                    /\ r.cost = None
              /\ ~r.ok =>
                    /\ StreamingRecords = {}
                    /\ r.error \in {"provider", "open", "save"}
    /\ st_pc # "returned" => StreamingRecords = {}
    /\ cost_history = (IF ex_pc = "returned"
                       THEN Unwrap(ex_result).cost_after ELSE <<>>)

\* the call returned the text of the chunk it received before an error item
\* and saved it
C28_Witness ==
    /\ st_pc = "returned"
    /\ StreamingMetError
    /\ st_i = 2
    /\ Unwrap(st_result).ok
    /\ Unwrap(st_result).reasoning = stream[1].content
    /\ stream[1].content # ""
    /\ \E i \in StreamingRecords : memory[i].response = stream[1].content

\* C27: an execute_task call that returned an error left the cost history and
\* the history table as they were.
C27_FailedExecuteChangesNothing ==
    (ex_pc = "returned" /\ ~Unwrap(ex_result).result.ok) =>
        /\ Unwrap(ex_result).cost_after = Unwrap(ex_result).cost_before
        /\ Unwrap(ex_result).memory_after = Unwrap(ex_result).memory_before

\* C22: a parse_orchestration command that was issued never has to wait for
\* a command that holds the runtime.
C22_ParseNeverWaits ==
    po_pc = "waiting" => lock = None

====
